---- MODULE Spec2Model ----
(***************************************************************************)
(* Model of the Welford accumulator of src/welford.py: a pool of           *)
(* accumulator objects, each holding (count, m1, m2), driven by the        *)
(* constructor, add, add_all and merge.                                    *)
(*                                                                         *)
(* Numbers are rationals [n, d] in lowest terms.  The fields m1 and m2 are *)
(* Python floats; the model runs every behaviour under one of two number   *)
(* systems, fixed at start-up: "exact" (the real numbers the formulas are  *)
(* written in) and "float" (every float operation rounds its result to     *)
(* MantBits significant bits, round-half-to-even, as IEEE-754 does with 53 *)
(* bits; the exponent range is unbounded, so nothing overflows).           *)
(* not-a-number is the value 0/0.                                          *)
(***************************************************************************)
EXTENDS Integers, Sequences, FiniteSets, TLC

VARIABLES
    acc,     \* acc[i]: the fields (count, m1, m2) of accumulator object i
    raised,  \* the exception the latest call ended in, or "none"
    arith,   \* the number system of the run: "exact" or "float"
    seen,    \* history: the scalars folded into i, directly or through merges
    merges,  \* history: merges into i that returned since its construction (0, 1, 2 = more)
    last     \* history: the latest call, its receiver and its accumulator argument

vars == <<acc, raised, arith, seen, merges, last>>

\* ------------------------------------------------------------------ bounds

\* Observations recorded in all accumulators together.
MaxObs == 3
\* Significant bits of a float in the "float" number system.
MantBits == 3

\* The accumulator objects of a run and the scalars fed to them.
Accs == {"A", "B", "C"}
Values == {-1, 4}
\* The lengths of the iterables handed to add_all and to the constructor.
BatchLens == {0, 1, 2}

\* --------------------------------------------------------------- rationals

Abs(k) == IF k < 0 THEN -k ELSE k

RECURSIVE Gcd(_, _)
Gcd(a, b) == IF b = 0 THEN a ELSE Gcd(b, a % b)

\* n/d in lowest terms with a positive denominator (d # 0).
Rat(n, d) ==
    LET g == Gcd(Abs(n), Abs(d))
        s == IF d < 0 THEN -1 ELSE 1
    IN  [n |-> s * (n \div g), d |-> s * (d \div g)]

FromInt(k) == [n |-> k, d |-> 1]
Zero == FromInt(0)
NaN == [n |-> 0, d |-> 0]
IsNaN(x) == x.d = 0

RAdd(x, y) == Rat(x.n * y.d + y.n * x.d, x.d * y.d)
RSub(x, y) == Rat(x.n * y.d - y.n * x.d, x.d * y.d)
RMul(x, y) == Rat(x.n * y.n, x.d * y.d)
RDiv(x, y) == Rat(x.n * y.d, x.d * y.n)
RLess(x, y) == x.n * y.d < y.n * x.d

RECURSIVE Pow2(_)
Pow2(k) == IF k = 0 THEN 1 ELSE 2 * Pow2(k - 1)

\* a/d (a >= 0, d > 0) to the nearest integer, ties to the even one.
RoundHalfEven(a, d) ==
    LET q == a \div d
        r == a % d
    IN  IF 2 * r < d THEN q
        ELSE IF 2 * r > d THEN q + 1
        ELSE IF q % 2 = 0 THEN q ELSE q + 1

\* a/d (a > 0, d > 0) rounded to MantBits significant bits.
RECURSIVE RoundPos(_, _)
RoundPos(a, d) ==
    IF a >= d * Pow2(MantBits)
    THEN LET r == RoundPos(a, 2 * d) IN Rat(2 * r.n, r.d)
    ELSE IF a < d * Pow2(MantBits - 1)
    THEN LET r == RoundPos(2 * a, d) IN Rat(r.n, 2 * r.d)
    ELSE FromInt(RoundHalfEven(a, d))

RoundFloat(x) ==
    IF x.n = 0 THEN x
    ELSE LET r == RoundPos(Abs(x.n), x.d)
         IN  IF x.n < 0 THEN [n |-> -r.n, d |-> r.d] ELSE r

\* The result of one float operation in the number system of the run.
Rnd(x) == IF arith = "exact" THEN x ELSE RoundFloat(x)

FAdd(x, y) == Rnd(RAdd(x, y))
FSub(x, y) == Rnd(RSub(x, y))
FMul(x, y) == Rnd(RMul(x, y))
FDiv(x, y) == Rnd(RDiv(x, y))
\* int -> float conversion of a mixed int/float operation.
ToFloat(k) == Rnd(FromInt(k))

\* ------------------------------------------------------------- accumulator

\* __init__: count = 0, m1 = 0.0, m2 = 0.0.
EmptyAcc == [count |-> 0, m1 |-> Zero, m2 |-> Zero]

\* The scalar branch with the increment of m2 taken as delta squared, the old
\* mean in both factors.
AddStateDeltaSq(a, elem) ==
    LET count == a.count + 1
        delta == FSub(ToFloat(elem), a.m1)
        m1 == FAdd(a.m1, FDiv(delta, ToFloat(count)))
        m2 == FAdd(a.m2, FMul(delta, delta))
    IN  [count |-> count, m1 |-> m1, m2 |-> m2]

\* add(elem), scalar branch.
AddState(a, elem) ==
    LET count == a.count + 1
        delta == FSub(ToFloat(elem), a.m1)
        m1 == FAdd(a.m1, FDiv(delta, ToFloat(count)))
        m2 == FAdd(a.m2, FMul(delta, FSub(ToFloat(elem), m1)))
    IN  [count |-> count, m1 |-> m1, m2 |-> m2]

\* add_all(iterable): add every element in iteration order.
RECURSIVE AddAllState(_, _)
AddAllState(a, iterable) ==
    IF iterable = <<>> THEN a
    ELSE AddAllState(AddState(a, Head(iterable)), Tail(iterable))

\* merge(other) divides by the combined count.
MergeRaises(self, other) == self.count + other.count = 0

\* merge without the between-groups term of m2.
MergeStateNoCross(self, other) ==
    LET count == self.count + other.count
        m1 == FDiv(FAdd(FMul(ToFloat(self.count), self.m1),
                        FMul(ToFloat(other.count), other.m1)),
                   ToFloat(count))
    IN  [count |-> count, m1 |-> m1, m2 |-> FAdd(self.m2, other.m2)]

\* merge with the two means averaged without their weights.
MergeStateUnweighted(self, other) ==
    LET count == self.count + other.count
        delta == FSub(self.m1, other.m1)
        delta2 == FMul(delta, delta)
        m1 == FDiv(FAdd(self.m1, other.m1), ToFloat(2))
        m2 == FAdd(FAdd(self.m2, other.m2),
                   FDiv(FMul(delta2, ToFloat(self.count * other.count)),
                        ToFloat(count)))
    IN  [count |-> count, m1 |-> m1, m2 |-> m2]

\* merge with the receiver's mean in both terms of the combined mean.
MergeStateSelfMean(self, other) ==
    LET count == self.count + other.count
        delta == FSub(self.m1, other.m1)
        delta2 == FMul(delta, delta)
        m1 == FDiv(FAdd(FMul(ToFloat(self.count), self.m1),
                        FMul(ToFloat(other.count), self.m1)),
                   ToFloat(count))
        m2 == FAdd(FAdd(self.m2, other.m2),
                   FDiv(FMul(delta2, ToFloat(self.count * other.count)),
                        ToFloat(count)))
    IN  [count |-> count, m1 |-> m1, m2 |-> m2]

\* merge counting its argument as one observation.
MergeStateCountOne(self, other) ==
    LET count == self.count + 1
        delta == FSub(self.m1, other.m1)
        delta2 == FMul(delta, delta)
        m1 == FDiv(FAdd(FMul(ToFloat(self.count), self.m1),
                        FMul(ToFloat(other.count), other.m1)),
                   ToFloat(count))
        m2 == FAdd(FAdd(self.m2, other.m2),
                   FDiv(FMul(delta2, ToFloat(self.count * other.count)),
                        ToFloat(count)))
    IN  [count |-> count, m1 |-> m1, m2 |-> m2]

\* merge(other) when it returns: the receiver's new fields.
MergeState(self, other) ==
    LET count == self.count + other.count
        delta == FSub(self.m1, other.m1)
        delta2 == FMul(delta, delta)
        m1 == FDiv(FAdd(FMul(ToFloat(self.count), self.m1),
                        FMul(ToFloat(other.count), other.m1)),
                   ToFloat(count))
        m2 == FAdd(FAdd(self.m2, other.m2),
                   FDiv(FMul(delta2, ToFloat(self.count * other.count)),
                        ToFloat(count)))
    IN  [count |-> count, m1 |-> m1, m2 |-> m2]

\* ----------------------------------------------------------------- queries

Count(a) == a.count
Mean(a) == a.m1
Acc(a) == <<a.count, a.m1, a.m2>>
Var(a) == IF a.count < 2 THEN NaN ELSE FDiv(a.m2, ToFloat(a.count - 1))
Varp(a) == IF a.count < 2 THEN NaN ELSE FDiv(a.m2, ToFloat(a.count))

\* math.sqrt: not-a-number for not-a-number, ValueError below zero, else the
\* principal root, kept as the number it is the root of.
SqrtRaises(x) == ~IsNaN(x) /\ x.n < 0
Sqrt(x) == [radicand |-> x]
Std(a) == Sqrt(Var(a))
Stdp(a) == Sqrt(Varp(a))
StdRaises(a) == SqrtRaises(Var(a))
StdpRaises(a) == SqrtRaises(Varp(a))

\* ------------------------------------------------------------------- state

Batches == UNION {[1..k -> Values] : k \in BatchLens}

RECURSIVE SumLen(_)
SumLen(S) ==
    IF S = {} THEN 0
    ELSE LET i == CHOOSE x \in S : TRUE IN Len(seen[i]) + SumLen(S \ {i})
TotalObs == SumLen(Accs)

Call(op, i, j) == [op |-> op, self |-> i, other |-> j]
More(k) == IF k < 2 THEN k + 1 ELSE 2

\* Every object starts as Welford().
Init ==
    /\ acc = [i \in Accs |-> EmptyAcc]
    /\ raised = "none"
    /\ arith \in {"exact", "float"}
    /\ seen = [i \in Accs |-> <<>>]
    /\ merges = [i \in Accs |-> 0]
    /\ last = Call("new", "A", "-")

\* Welford(): a new empty accumulator takes the place of object i.
New(i) ==
    /\ acc' = [acc EXCEPT ![i] = EmptyAcc]
    /\ raised' = "none"
    /\ seen' = [seen EXCEPT ![i] = <<>>]
    /\ merges' = [merges EXCEPT ![i] = 0]
    /\ last' = Call("new", i, "-")
    /\ UNCHANGED arith

\* Welford(v) for a scalar v: the constructor calls add(v).
NewScalar(i, v) ==
    /\ TotalObs - Len(seen[i]) + 1 <= MaxObs
    /\ acc' = [acc EXCEPT ![i] = AddState(EmptyAcc, v)]
    /\ raised' = "none"
    /\ seen' = [seen EXCEPT ![i] = <<v>>]
    /\ merges' = [merges EXCEPT ![i] = 0]
    /\ last' = Call("new", i, "-")
    /\ UNCHANGED arith

\* Welford(data) for an iterable: the constructor calls add_all(data).
NewIterable(i, data) ==
    /\ TotalObs - Len(seen[i]) + Len(data) <= MaxObs
    /\ acc' = [acc EXCEPT ![i] = AddAllState(EmptyAcc, data)]
    /\ raised' = "none"
    /\ seen' = [seen EXCEPT ![i] = data]
    /\ merges' = [merges EXCEPT ![i] = 0]
    /\ last' = Call("new", i, "-")
    /\ UNCHANGED arith

\* merge that moves its argument's observations: the argument is left empty.
MergeBodyDrain(i, j) ==
    /\ TotalObs + Len(seen[j]) <= MaxObs
    /\ IF MergeRaises(acc[i], acc[j])
       THEN /\ raised' = "ZeroDivisionError"
            /\ UNCHANGED <<acc, seen, merges>>
       ELSE /\ acc' = [k \in Accs |->
                         IF k = i THEN MergeState(acc[i], acc[j])
                         ELSE IF k = j THEN EmptyAcc ELSE acc[k]]
            /\ raised' = "none"
            /\ seen' = [k \in Accs |->
                          IF k = i THEN seen[i] \o seen[j]
                          ELSE IF k = j THEN <<>> ELSE seen[k]]
            /\ merges' = [merges EXCEPT ![i] = More(merges[i])]
    /\ UNCHANGED arith

\* merge that updates its fields in place: the mean is stored, as
\* not-a-number, before the division for m2 raises.
MergeBodyInPlace(i, j) ==
    /\ TotalObs + Len(seen[j]) <= MaxObs
    /\ IF MergeRaises(acc[i], acc[j])
       THEN /\ raised' = "ZeroDivisionError"
            /\ acc' = [acc EXCEPT ![i].m1 = NaN]
            /\ UNCHANGED <<seen, merges>>
       ELSE /\ acc' = [acc EXCEPT ![i] = MergeState(acc[i], acc[j])]
            /\ raised' = "none"
            /\ seen' = [seen EXCEPT ![i] = seen[i] \o seen[j]]
            /\ merges' = [merges EXCEPT ![i] = More(merges[i])]
    /\ UNCHANGED arith

\* The body of merge(other) on receiver i with argument j (j may be i itself):
\* the new fields are computed first and assigned last, so the division that
\* raises leaves every field as it was.
MergeBody(i, j) ==
    /\ TotalObs + Len(seen[j]) <= MaxObs
    /\ IF MergeRaises(acc[i], acc[j])
       THEN /\ raised' = "ZeroDivisionError"
            /\ UNCHANGED <<acc, seen, merges>>
       ELSE /\ acc' = [acc EXCEPT ![i] = MergeState(acc[i], acc[j])]
            /\ raised' = "none"
            /\ seen' = [seen EXCEPT ![i] = seen[i] \o seen[j]]
            /\ merges' = [merges EXCEPT ![i] = More(merges[i])]
    /\ UNCHANGED arith

\* x.merge(y).
Merge(i, j) ==
    /\ MergeBody(i, j)
    /\ last' = Call("merge", i, j)

\* x.add(v) with a scalar v.
Add(i, elem) ==
    /\ TotalObs + 1 <= MaxObs
    /\ acc' = [acc EXCEPT ![i] = AddState(acc[i], elem)]
    /\ raised' = "none"
    /\ seen' = [seen EXCEPT ![i] = Append(seen[i], elem)]
    /\ last' = Call("add", i, "-")
    /\ UNCHANGED <<merges, arith>>

\* add without the isinstance test: the scalar branch counts the accumulator
\* as one more value, then fails to subtract a float from it.
AddAccNoDispatch(i, j) ==
    /\ TotalObs + Len(seen[j]) <= MaxObs
    /\ acc' = [acc EXCEPT ![i].count = acc[i].count + 1]
    /\ raised' = "TypeError"
    /\ last' = Call("add", i, j)
    /\ UNCHANGED <<seen, merges, arith>>

\* x.add(y) with an accumulator y: isinstance(elem, Welford) sends it to merge.
AddAcc(i, j) ==
    /\ MergeBody(i, j)
    /\ last' = Call("add", i, j)

\* x.add_all(iterable).
AddAll(i, iterable) ==
    /\ TotalObs + Len(iterable) <= MaxObs
    /\ acc' = [acc EXCEPT ![i] = AddAllState(acc[i], iterable)]
    /\ raised' = "none"
    /\ seen' = [seen EXCEPT ![i] = seen[i] \o iterable]
    /\ last' = Call("add_all", i, "-")
    /\ UNCHANGED <<merges, arith>>

Next ==
    \/ \E i \in Accs : New(i)
    \/ \E i \in Accs, v \in Values : NewScalar(i, v)
    \/ \E i \in Accs, data \in Batches : NewIterable(i, data)
    \/ \E i \in Accs, v \in Values : Add(i, v)
    \/ \E i \in Accs, j \in Accs : AddAcc(i, j)
    \/ \E i \in Accs, data \in Batches : AddAll(i, data)
    \/ \E i \in Accs, j \in Accs : Merge(i, j)

Spec == Init /\ [][Next]_vars

\* ------------------------------------------------- the textbook statistics

RECURSIVE SeqSum(_)
SeqSum(s) == IF s = <<>> THEN 0 ELSE Head(s) + SeqSum(Tail(s))

\* Arithmetic mean of a non-empty list of integers, as a real number.
ListMean(s) == Rat(SeqSum(s), Len(s))

\* Two-pass sum of the squared deviations of s from mu, as a real number.
RECURSIVE SumSqDev(_, _)
SumSqDev(s, mu) ==
    IF s = <<>> THEN Zero
    ELSE LET dev == RSub(FromInt(Head(s)), mu)
         IN  RAdd(RMul(dev, dev), SumSqDev(Tail(s), mu))

Fold(s) == AddAllState(EmptyAcc, s)
Returned == raised = "none"
\* The step is the call op on receiver i with accumulator argument j.
Calls(op, i, j) == last' = Call(op, i, j)

\* ------------------------------------------------------------------ claims

\* C1: merge exactness.  Two accumulators X and Y that were each built by
\* sequential adds, of a list of at least one element in all, and then
\* X.merge(Y): in exact arithmetic X holds the count, mean and m2 (hence the
\* var) of the whole list folded into one fresh accumulator.
C1_MergeExact ==
    arith = "exact" =>
        \A i \in Accs, j \in Accs :
            ( /\ last = Call("merge", i, j)
              /\ i # j
              /\ merges[i] = 1
              /\ merges[j] = 0
              /\ Len(seen[i]) >= 1 )
            => /\ Returned
               /\ acc[j] = Fold(seen[j])
               /\ \E k \in 0..Len(seen[i]) :
                      /\ seen[j] = SubSeq(seen[i], k + 1, Len(seen[i]))
                      /\ acc[i] = Fold(SubSeq(seen[i], 1, k) \o seen[j])
               /\ Var(acc[i]) = Var(Fold(seen[i]))

C1_Witness ==
    /\ arith = "exact"
    /\ \E i \in Accs, j \in Accs :
          /\ last = Call("merge", i, j)
          /\ i # j
          /\ merges[i] = 1
          /\ merges[j] = 0
          /\ Len(seen[j]) >= 1
          /\ Len(seen[i]) > Len(seen[j])
          /\ acc[i].m1 # acc[j].m1
          /\ acc[i].m2 # Zero

\* C2 as stated: merging with a freshly constructed empty accumulator, in
\* either position, leaves the (count, mean, m2) of the other operand as the
\* receiver's state.
C2_IdentityAsStated ==
    [][\A i \in Accs, j \in Accs :
          Calls("merge", i, j) =>
              /\ acc[j] = EmptyAcc => acc'[i] = acc[i]
              /\ acc[i] = EmptyAcc => acc'[i] = acc[j]]_vars

\* C2 as amended: merging with a freshly constructed empty accumulator, in
\* either position, gives the receiver the other operand's count, and in exact
\* arithmetic its mean and m2 as well.
C2_IdentityExact ==
    [][\A i \in Accs, j \in Accs :
          Calls("merge", i, j) =>
              /\ acc[j] = EmptyAcc =>
                    /\ acc'[i].count = acc[i].count
                    /\ arith = "exact" => acc'[i] = acc[i]
              /\ acc[i] = EmptyAcc =>
                    /\ acc'[i].count = acc[j].count
                    /\ arith = "exact" => acc'[i] = acc[j]]_vars

C2_Witness ==
    /\ arith = "exact"
    /\ Returned
    /\ \E i \in Accs, j \in Accs :
          /\ last = Call("merge", i, j)
          /\ acc[j] = EmptyAcc
          /\ acc[i].count >= 2
          /\ acc[i].m2 # Zero

\* C3: varp is m2 / count whenever count >= 1 and not-a-number only when
\* count = 0; after one scalar added to an empty accumulator varp = 0 and
\* stdp = 0, var and std are not-a-number and mean is that scalar.
C3_VarpDomain ==
    \A i \in Accs :
        LET a == acc[i]
        IN  /\ a.count >= 1 => Varp(a) = FDiv(a.m2, ToFloat(a.count))
            /\ IsNaN(Varp(a)) => a.count = 0
            /\ (a.count = 1 /\ merges[i] = 0) =>
                  /\ Varp(a) = Zero
                  /\ Stdp(a) = Sqrt(Zero)
                  /\ IsNaN(Var(a))
                  /\ Std(a) = Sqrt(NaN)
                  /\ Mean(a) = FromInt(seen[i][1])

\* C4: single-pass equivalence.  A list of n >= 2 values folded into a fresh
\* accumulator by sequential adds, in exact arithmetic: count = n, mean is the
\* arithmetic mean, m2 the two-pass sum of squared deviations from it, var the
\* two-pass sample variance; and [2,4,4,4,5,5,7,9] gives (8, 5, 32).
C4_SinglePass ==
    arith = "exact" =>
        /\ \A i \in Accs :
              (merges[i] = 0 /\ Len(seen[i]) >= 2) =>
                  LET s == seen[i]
                      mu == ListMean(s)
                  IN  /\ Count(acc[i]) = Len(s)
                      /\ Mean(acc[i]) = mu
                      /\ acc[i].m2 = SumSqDev(s, mu)
                      /\ Var(acc[i]) = RDiv(SumSqDev(s, mu), FromInt(Len(s) - 1))
        /\ Fold(<<2, 4, 4, 4, 5, 5, 7, 9>>)
              = [count |-> 8, m1 |-> FromInt(5), m2 |-> FromInt(32)]

C4_Witness ==
    /\ arith = "exact"
    /\ \E i \in Accs :
          /\ merges[i] = 0
          /\ last = Call("add", i, "-")
          /\ Len(seen[i]) >= 3
          /\ acc[i].m2 # Zero
          /\ acc[i].m1.d # 1

\* C5: no call to add, add_all, merge or a query ends in an error.
C5_NoOperationFails ==
    /\ Returned
    /\ \A i \in Accs : ~StdRaises(acc[i]) /\ ~StdpRaises(acc[i])

\* C6 as stated: X.merge(Y) and X.add(Y) leave the (count, mean, m2) of Y as
\* they were, for any X and Y.
C6_ArgumentUnchanged ==
    [][\A i \in Accs, j \in Accs :
          (Calls("merge", i, j) \/ Calls("add", i, j)) => acc'[j] = acc[j]]_vars

\* C6 as amended: X.merge(Y) and X.add(Y) leave the (count, mean, m2) of Y,
\* and of every accumulator other than X, as they were, for any X and any Y
\* that is not X itself.
C6_DistinctArgumentUnchanged ==
    [][\A i \in Accs, j \in Accs :
          (i # j /\ (Calls("merge", i, j) \/ Calls("add", i, j))) =>
              \A k \in Accs \ {i} : acc'[k] = acc[k]]_vars

C6_Witness ==
    /\ Returned
    /\ \E i \in Accs, j \in Accs :
          /\ last = Call("merge", i, j)
          /\ i # j
          /\ acc[j].count >= 1
          /\ acc[i].count > acc[j].count
          /\ acc[i] # acc[j]

\* C7: merge is order-independent.  For non-empty accumulators A, B, C built
\* by sequential adds, in exact arithmetic, A merge B = B merge A and
\* (A merge B) merge C = A merge (B merge C).
C7_MergeOrder ==
    arith = "exact" =>
        \A i \in Accs, j \in Accs, k \in Accs :
            ( /\ merges[i] = 0 /\ merges[j] = 0 /\ merges[k] = 0
              /\ acc[i].count >= 1 /\ acc[j].count >= 1 /\ acc[k].count >= 1 )
            => /\ MergeState(acc[i], acc[j]) = MergeState(acc[j], acc[i])
               /\ MergeState(MergeState(acc[i], acc[j]), acc[k])
                     = MergeState(acc[i], MergeState(acc[j], acc[k]))

C7_Witness ==
    /\ arith = "exact"
    /\ \A i \in Accs : merges[i] = 0 /\ acc[i].count >= 1
    /\ acc["A"].m1 # acc["B"].m1
    /\ acc["B"].m1 # acc["C"].m1

\* C8: state invariants.  count >= 0 and count is the number of scalars folded
\* in, directly or through merged accumulators; m2 >= 0 in exact arithmetic;
\* at count = 1 the mean is the single observation and m2 = 0.
C8_StateInvariants ==
    \A i \in Accs :
        /\ acc[i].count >= 0
        /\ acc[i].count = Len(seen[i])
        /\ arith = "exact" => ~RLess(acc[i].m2, Zero)
        /\ acc[i].count = 1 =>
              /\ acc[i].m1 = FromInt(seen[i][1])
              /\ acc[i].m2 = Zero

C8_Witness ==
    \E i \in Accs, j \in Accs :
        /\ i # j
        /\ merges[i] >= 1
        /\ acc[i].count = 2
        /\ acc[i].m2 # Zero
        /\ merges[j] >= 1
        /\ acc[j].count = 1

\* C9: add dispatches on its argument.  X.add(Y) with an accumulator Y ends as
\* X.merge(Y) does (the merge formula, count grown by Y.count); X.add(v) with a
\* scalar v is the recurrence n' = n + 1, delta = v - mean,
\* mean' = mean + delta / n', m2' = m2 + delta * (v - mean').
C9_AddDispatch ==
    [][\A i \in Accs :
          /\ \A j \in Accs :
                Calls("add", i, j) =>
                    IF MergeRaises(acc[i], acc[j])
                    THEN raised' = "ZeroDivisionError" /\ acc' = acc
                    ELSE /\ raised' = "none"
                         /\ acc'[i] = MergeState(acc[i], acc[j])
                         /\ acc'[i].count = acc[i].count + acc[j].count
          /\ Calls("add", i, "-") =>
                LET v == ToFloat(seen'[i][Len(seen'[i])])
                    n == acc[i].count + 1
                    delta == FSub(v, acc[i].m1)
                    mean == FAdd(acc[i].m1, FDiv(delta, ToFloat(n)))
                IN  /\ raised' = "none"
                    /\ acc'[i].count = n
                    /\ acc'[i].m1 = mean
                    /\ acc'[i].m2 = FAdd(acc[i].m2, FMul(delta, FSub(v, mean)))]_vars

C9_Witness ==
    /\ Returned
    /\ \E i \in Accs, j \in Accs :
          /\ last = Call("add", i, j)
          /\ i # j
          /\ acc[j].count >= 1
          /\ acc[i].count > acc[j].count
          /\ acc[i].m2 # acc[j].m2

\* C10: a failed merge is atomic.  A merge (or an add of an accumulator) that
\* raises does so because both operands are empty, and leaves the
\* (count, mean, m2) of every accumulator as they were.
C10_FailedMergeAtomic ==
    [][\A i \in Accs, j \in Accs :
          ( /\ Calls("merge", i, j) \/ Calls("add", i, j)
            /\ raised' # "none" )
          => /\ acc[i].count = 0
             /\ acc[j].count = 0
             /\ acc' = acc]_vars

C10_Witness ==
    /\ raised = "ZeroDivisionError"
    /\ \E i \in Accs, j \in Accs, k \in Accs :
          /\ last = Call("merge", i, j)
          /\ i # j
          /\ acc[i] = EmptyAcc
          /\ acc[j] = EmptyAcc
          /\ acc[k].count >= 2

====
